---------------------------- MODULE Spec2Model ----------------------------
(***************************************************************************)
(* A model of the FASTQ parsing engine of rust-fastq-parser: the in-memory *)
(* Parser (src/src/parser.rs), the chunk-boundary finder and the collect   *)
(* surface of ParallelParser (src/src/parallel.rs), the streaming parser   *)
(* over BufferedReader (src/src/parser.rs, src/src/buffer.rs,              *)
(* src/src/reader.rs), the byte-scanning primitives (src/src/simd.rs), the *)
(* quality scores (src/src/record.rs), StreamingReader and ChunkedStreamer *)
(* (src/src/stream.rs), and the channel surfaces of src/src/parallel.rs:   *)
(* parse_streaming and ParallelProcessor::process_file.                    *)
(*                                                                         *)
(* A byte is its ASCII code.  A region is a sequence of bytes; the code's  *)
(* 0-based offset i is element i+1 of the sequence.  A slice data[s..e] is *)
(* Slice(data, s, e).  Option::None of an offset is NONE (-1).             *)
(***************************************************************************)
EXTENDS Integers, Sequences, FiniteSets, TLC

VARIABLES
    src,        \* ghost: the list of record descriptors the region was rendered from
    data,       \* Parser.data / ParallelParser.data / the bytes behind the byte source
    pos,        \* Parser.pos
    line,       \* Parser.line
    res,        \* what the last parse_record call returned
    out,        \* the records yielded so far, in order
    calls,      \* ghost: the number of parse_record calls made
    p_state,    \* ParallelParser.parse: "init", "split", "done"
    p_threads,  \* ParallelParser.num_threads
    p_target,   \* the chunk-size floor (CHUNK_SIZE, scaled to the model's regions)
    p_chunks,   \* the (start, end) pairs of find_record_boundaries
    p_parsed,   \* per chunk: not yet parsed, or the worker's result
    p_result,   \* what parse returned
    s_rest,     \* the bytes the byte source has not delivered yet
    s_win,      \* BufferedReader.buffer[0..cap]
    s_pos,      \* BufferedReader.pos
    s_capacity, \* BufferedReader.buffer.len()
    s_eof,      \* BufferedReader.eof
    s_last,     \* what the last StreamingIterator.next call returned
    s_out,      \* the records the streaming iterator yielded so far
    s_tick,     \* parity of the number of next() calls made
    shape,      \* ghost: how the region was derived from the rendered records
    f_region,   \* the region handed to a simd function
    f_avx2,     \* has_avx2(): whether the build and the CPU take the lane-wise path
    f_call,     \* the simd call made last, with its arguments
    f_ret,      \* what that call returned
    q_enc,      \* the QualityEncoding to_phred_scores is called on
    q_qual,     \* its qual_string argument
    q_scores,   \* what to_phred_scores returned
    b_taken,    \* ghost: the number of bytes consume() has passed over
    r_rest,     \* StreamingReader: the bytes its source has not delivered yet
    r_buffer,   \* StreamingReader.buffer
    r_position, \* StreamingReader.position
    r_eof,      \* StreamingReader.eof
    r_records,  \* StreamingReader.records_buffer
    r_last,     \* what the last next_record call returned
    r_out,      \* the records next_record returned so far
    k_rest,       \* ChunkedStreamer: the bytes its reader has not delivered yet
    k_chunk_size, \* ChunkedStreamer.chunk_size
    k_overlap,    \* ChunkedStreamer.overlap
    k_last_chunk, \* ChunkedStreamer.last_chunk
    k_ret,        \* what the last next_chunk call returned
    k_out,        \* the chunks returned so far, concatenated
    c_queue,    \* the bounded channel: the messages sent and not yet received
    c_recv,     \* the receiving side: "alive", "dropped", or "ended" (saw the end)
    c_got,      \* the messages the consumer received, in order
    c_pool,     \* the number of threads of the rayon pool
    c_active,   \* the chunks whose closure a pool thread is running
    w_state,    \* ParallelProcessor: per worker thread, where it is in its loop
    w_stats,    \* the ProcessingStats behind the mutex
    w_progress, \* ParallelProcessor.progress
    w_base      \* ghost: progress when process_file was called

vars == <<src, data, pos, line, res, out, calls,
          p_state, p_threads, p_target, p_chunks, p_parsed, p_result,
          s_rest, s_win, s_pos, s_capacity, s_eof, s_last, s_out, s_tick,
          shape, f_region, f_avx2, f_call, f_ret,
          q_enc, q_qual, q_scores, b_taken,
          r_rest, r_buffer, r_position, r_eof, r_records, r_last, r_out,
          k_rest, k_chunk_size, k_overlap, k_last_chunk, k_ret, k_out,
          c_queue, c_recv, c_got, c_pool, c_active,
          w_state, w_stats, w_progress, w_base>>

parserVars == <<pos, line, res, out, calls>>
parVars    == <<p_state, p_threads, p_target, p_chunks, p_parsed, p_result>>
streamVars == <<s_rest, s_win, s_pos, s_capacity, s_eof, s_last, s_out, s_tick>>
simdVars   == <<f_region, f_avx2, f_call, f_ret>>
qualVars   == <<q_enc, q_qual, q_scores>>
\* the variables of the surfaces modelled after the simd primitives
readerVars == <<r_rest, r_buffer, r_position, r_eof, r_records, r_last, r_out>>
chunkerVars == <<k_rest, k_chunk_size, k_overlap, k_last_chunk, k_ret, k_out>>
chanVars   == <<c_queue, c_recv, c_got, c_pool, c_active>>
procVars   == <<w_state, w_stats, w_progress, w_base>>
laterVars  == <<readerVars, chunkerVars, chanVars, procVars>>
extVars    == <<qualVars, b_taken, laterVars>>

---------------------------------------------------------------------------
(* Bytes the code names.                                                   *)
NL == 10
CR == 13
TAB == 9
FF == 12
SP == 32
AT == 64
PLUS == 43

NONE == -1

Slice(d, s, e) == SubSeq(d, s + 1, e)

MinOf(S) == CHOOSE x \in S : \A y \in S : x <= y

\* the element of a one-element set
TheOne(S) == CHOOSE x \in S : TRUE

\* u8::is_ascii_whitespace: space, tab, line feed, form feed, carriage return
is_ascii_whitespace(b) == b \in {SP, TAB, NL, FF, CR}

---------------------------------------------------------------------------
(* simd::find_char: the least offset >= start holding target.              *)
find_char(d, target, start) ==
    LET hits == {i \in start..(Len(d) - 1) : d[i + 1] = target}
    IN  IF hits = {} THEN NONE ELSE MinOf(hits)

---------------------------------------------------------------------------
(* Errors and records.                                                     *)
NoErr == [tag |-> "None", a |-> 0, b |-> 0]
InvalidHeader(l) == [tag |-> "InvalidHeader", a |-> l, b |-> 0]
InvalidSeparator(l) == [tag |-> "InvalidSeparator", a |-> l, b |-> 0]
LengthMismatch(seq_len, qual_len) == [tag |-> "LengthMismatch", a |-> seq_len, b |-> qual_len]
UnexpectedEof == [tag |-> "UnexpectedEof", a |-> 0, b |-> 0]

\* Option<&[u8]>: <<>> is None, <<s>> is Some(s)
NoDesc == <<>>
SomeDesc(s) == <<s>>

Record(id, desc, seq, qual) == [id |-> id, desc |-> desc, seq |-> seq, qual |-> qual]
NoRec == Record(<<>>, NoDesc, <<>>, <<>>)

\* Result<Option<Record>> together with the cursor the call leaves behind
RetNone(p, l) == [kind |-> "none", rec |-> NoRec, err |-> NoErr, pos |-> p, line |-> l]
RetErr(e, p, l) == [kind |-> "error", rec |-> NoRec, err |-> e, pos |-> p, line |-> l]
RetRec(r, p, l) == [kind |-> "record", rec |-> r, err |-> NoErr, pos |-> p, line |-> l]

---------------------------------------------------------------------------
(* Parser::read_line                                                       *)
\* a read_line that answers an empty line at the end of the region
line_result_eof_ok(d, p, l, end) ==
    IF end # NONE
    THEN LET line_end == IF end > p /\ d[end] = CR THEN end - 1 ELSE end
         IN  [ok |-> TRUE, pos |-> end + 1, line |-> l + 1, s |-> p, e |-> line_end]
    ELSE [ok |-> TRUE, pos |-> Len(d), line |-> l, s |-> p, e |-> Len(d)]

\* a read_line that returns the unterminated last line without moving past it
line_result_stay(d, p, l, end) ==
    IF end # NONE
    THEN LET line_end == IF end > p /\ d[end] = CR THEN end - 1 ELSE end
         IN  [ok |-> TRUE, pos |-> end + 1, line |-> l + 1, s |-> p, e |-> line_end]
    ELSE IF p < Len(d)
    THEN [ok |-> TRUE, pos |-> p, line |-> l, s |-> p, e |-> Len(d)]
    ELSE [ok |-> FALSE, pos |-> p, line |-> l, s |-> p, e |-> p]

\* a read_line that leaves a '\r' at the end of the line
line_result_keep_cr(d, p, l, end) ==
    IF end # NONE
    THEN [ok |-> TRUE, pos |-> end + 1, line |-> l + 1, s |-> p, e |-> end]
    ELSE IF p < Len(d)
    THEN [ok |-> TRUE, pos |-> Len(d), line |-> l, s |-> p, e |-> Len(d)]
    ELSE [ok |-> FALSE, pos |-> p, line |-> l, s |-> p, e |-> p]

\* read_line once find_newline gave end
line_result(d, p, l, end) ==
    IF end # NONE
    THEN LET line_end == IF end > p /\ d[end] = CR THEN end - 1 ELSE end
         IN  [ok |-> TRUE, pos |-> end + 1, line |-> l + 1, s |-> p, e |-> line_end]
    ELSE IF p < Len(d)
    THEN [ok |-> TRUE, pos |-> Len(d), line |-> l, s |-> p, e |-> Len(d)]
    ELSE [ok |-> FALSE, pos |-> p, line |-> l, s |-> p, e |-> p]

read_line(d, p, l) ==
    TheOne({ line_result(d, p, l, end) : end \in {find_char(d, NL, p)} })

(* Parser::parse_header                                                    *)
parse_header(header) ==
    LET space_pos == find_char(header, SP, 0)
        tab_pos == find_char(header, TAB, 0)
    IN  IF space_pos # NONE
        THEN [id |-> Slice(header, 0, space_pos),
              desc |-> SomeDesc(Slice(header, space_pos + 1, Len(header)))]
        ELSE IF tab_pos # NONE
        THEN [id |-> Slice(header, 0, tab_pos),
              desc |-> SomeDesc(Slice(header, tab_pos + 1, Len(header)))]
        ELSE [id |-> header, desc |-> NoDesc]

(* The whitespace-skipping loop at the head of parse_record                *)
\* a loop that skips line terminators only
RECURSIVE skip_newlines_only(_, _, _)
skip_newlines_only(d, p, l) ==
    IF p < Len(d) /\ d[p + 1] = NL
    THEN skip_newlines_only(d, p + 1, l + 1)
    ELSE [pos |-> p, line |-> l]

RECURSIVE skip_whitespace(_, _, _)
skip_whitespace(d, p, l) ==
    IF p < Len(d) /\ is_ascii_whitespace(d[p + 1])
    THEN skip_whitespace(d, p + 1, IF d[p + 1] = NL THEN l + 1 ELSE l)
    ELSE [pos |-> p, line |-> l]

(* Parser::read_sequence                                                   *)
\* the reverse scan for the last non-whitespace byte of start..newline_pos
trim_seq_end(d, start, newline_pos, seq_end) ==
    LET nonws == {i \in start..(newline_pos - 1) : ~is_ascii_whitespace(d[i + 1])}
        e1 == IF nonws = {} THEN seq_end
              ELSE (CHOOSE i \in nonws : \A j \in nonws : j <= i) + 1
    IN  IF e1 = start /\ nonws # {} THEN newline_pos ELSE e1

RECURSIVE sequence_loop(_, _, _, _, _)
sequence_loop(d, start, p, l, seq_end) ==
    LET newline_pos == find_char(d, NL, p)
    IN  IF newline_pos = NONE
        THEN [pos |-> p, line |-> l, seq_end |-> seq_end]
        ELSE IF newline_pos + 1 < Len(d) /\ d[newline_pos + 2] = PLUS
        THEN [pos |-> newline_pos + 1, line |-> l + 1,
              seq_end |-> trim_seq_end(d, start, newline_pos, seq_end)]
        ELSE sequence_loop(d, start, newline_pos + 1, l + 1, newline_pos)

read_sequence(d, p, l) ==
    TheOne({ [ok |-> r.seq_end # p, pos |-> r.pos, line |-> r.line, s |-> p, e |-> r.seq_end] :
                 r \in {sequence_loop(d, p, p, l, p)} })

(* Parser::read_quality                                                    *)
\* the counting scan: i is the offset scanned next
RECURSIVE quality_scan(_, _, _, _, _, _)
quality_scan(d, i, l, non_ws_count, quality_end, expected_len) ==
    IF i >= Len(d)
    THEN [hit |-> FALSE, line |-> l, count |-> non_ws_count, quality_end |-> quality_end]
    ELSE IF d[i + 1] = NL
    THEN quality_scan(d, i + 1, l + 1, non_ws_count, quality_end, expected_len)
    ELSE IF ~is_ascii_whitespace(d[i + 1])
    THEN IF non_ws_count + 1 = expected_len
         THEN [hit |-> TRUE, line |-> l, count |-> non_ws_count + 1, quality_end |-> i + 1]
         ELSE quality_scan(d, i + 1, l, non_ws_count + 1, i + 1, expected_len)
    ELSE quality_scan(d, i + 1, l, non_ws_count, quality_end, expected_len)

\* the trailing-whitespace loop: stops after the first newline
RECURSIVE skip_trailing(_, _, _)
skip_trailing(d, p, l) ==
    IF p < Len(d) /\ is_ascii_whitespace(d[p + 1])
    THEN IF d[p + 1] = NL
         THEN [pos |-> p + 1, line |-> l + 1]
         ELSE skip_trailing(d, p + 1, l)
    ELSE [pos |-> p, line |-> l]

\* read_quality once the scan sc is done
quality_result(d, p, sc, expected_len) ==
    IF sc.count # expected_len
    THEN [ok |-> FALSE, err |-> LengthMismatch(expected_len, sc.count),
          pos |-> p, line |-> sc.line, s |-> p, e |-> sc.quality_end]
    ELSE LET t == skip_trailing(d, IF sc.hit THEN sc.quality_end ELSE p, sc.line)
         IN  [ok |-> TRUE, err |-> NoErr,
              pos |-> t.pos, line |-> t.line, s |-> p, e |-> sc.quality_end]

\* a quality reader that takes a line-leading '@' for the next header
read_quality_at_is_header(d, p, l, expected_len) ==
    IF p < Len(d) /\ d[p + 1] = AT
    THEN [ok |-> FALSE, err |-> LengthMismatch(expected_len, 0),
          pos |-> p, line |-> l, s |-> p, e |-> p]
    ELSE TheOne({ quality_result(d, p, sc, expected_len) :
                      sc \in {quality_scan(d, p, l, 0, p, expected_len)} })

\* a quality reader that reports the two lengths swapped
read_quality_swapped(d, p, l, expected_len) ==
    TheOne({ IF sc.count # expected_len
             THEN [ok |-> FALSE, err |-> LengthMismatch(sc.count, expected_len),
                   pos |-> p, line |-> sc.line, s |-> p, e |-> sc.quality_end]
             ELSE quality_result(d, p, sc, expected_len) :
                 sc \in {quality_scan(d, p, l, 0, p, expected_len)} })

read_quality(d, p, l, expected_len) ==
    TheOne({ quality_result(d, p, sc, expected_len) :
                 sc \in {quality_scan(d, p, l, 0, p, expected_len)} })

(* Parser::parse_record, lines 96-105: the length check and the record     *)
\* the record built without the length check
finish_record_unchecked(d, h, sq, q) ==
    RetRec(Record(h.id, h.desc, Slice(d, sq.s, sq.e), Slice(d, q.s, q.e)),
           q.pos, q.line)

finish_record(d, h, sq, q) ==
    IF (sq.e - sq.s) # (q.e - q.s)
    THEN RetErr(LengthMismatch(sq.e - sq.s, q.e - q.s), q.pos, q.line)
    ELSE RetRec(Record(h.id, h.desc, Slice(d, sq.s, sq.e), Slice(d, q.s, q.e)),
                q.pos, q.line)

(* Parser::parse_record, line 96: the quality, read for len(seq) bytes     *)
after_separator(d, h, sq, sep) ==
    TheOne({ IF ~q.ok THEN RetErr(q.err, q.pos, q.line) ELSE finish_record(d, h, sq, q) :
                 q \in {read_quality(d, sep.pos, sep.line, sq.e - sq.s)} })

(* Parser::parse_record, lines 91-94: the separator line                   *)
after_sequence(d, h, sq) ==
    IF ~sq.ok THEN RetErr(UnexpectedEof, sq.pos, sq.line)
    ELSE TheOne({ IF ~sep.ok THEN RetErr(UnexpectedEof, sep.pos, sep.line)
                  ELSE IF sep.e = sep.s \/ d[sep.s + 1] # PLUS
                  THEN RetErr(InvalidSeparator(sep.line - 1), sep.pos, sep.line)
                  ELSE after_separator(d, h, sq, sep) :
                      sep \in {read_line(d, sq.pos, sq.line)} })

(* Parser::parse_record, lines 87-89: the header split and the sequence    *)
parse_body(d, hl) ==
    TheOne({ after_sequence(d, h, sq) :
                 h \in {parse_header(Slice(d, hl.s + 1, hl.e))},
                 sq \in {read_sequence(d, hl.pos, hl.line)} })

(* Parser::parse_record, lines 78-85: the header line                      *)
after_whitespace(d, w) ==
    IF w.pos >= Len(d) THEN RetNone(w.pos, w.line)
    ELSE TheOne({ IF ~hl.ok THEN RetErr(UnexpectedEof, hl.pos, hl.line)
                  ELSE IF hl.e = hl.s THEN RetNone(hl.pos, hl.line)
                  ELSE IF d[hl.s + 1] # AT
                  THEN RetErr(InvalidHeader(hl.line - 1), hl.pos, hl.line)
                  ELSE parse_body(d, hl) :
                      hl \in {read_line(d, w.pos, w.line)} })

(* Parser::parse_record                                                    *)
parse_record(d, p, l) ==
    IF p >= Len(d) THEN RetNone(p, l)
    ELSE TheOne({ after_whitespace(d, w) : w \in {skip_whitespace(d, p, l)} })

---------------------------------------------------------------------------
(* Inputs.  A region is rendered from a list of record descriptors, the    *)
(* way the tests build theirs: '@', id, an optional separator byte and     *)
(* description, newline, sequence, newline, '+', newline, quality,         *)
(* newline.  sep = 0 means the header has no description.                  *)
MaxRecs == 2

Desc(id, sep, desc, seq, qual) ==
    [id |-> id, sep |-> sep, desc |-> desc, seq |-> seq, qual |-> qual]

\* 'a' 97, 'b' 98, 'c' 99, 'd' 100, 'A' 65, 'C' 67, 'I' 73
WellFormedRecs ==
    { Desc(<<97>>, 0, <<>>, <<65>>, <<73>>),
      Desc(<<98>>, 0, <<>>, <<65, 67>>, <<73, 73>>),
      Desc(<<97>>, 0, <<>>, <<65>>, <<AT>>),
      Desc(<<98>>, 0, <<>>, <<65, 67>>, <<AT, 73>>),
      Desc(<<97>>, 0, <<>>, <<65>>, <<PLUS>>),
      Desc(<<98>>, 0, <<>>, <<65, 67>>, <<PLUS, AT>>),
      Desc(<<97>>, SP, <<100>>, <<65>>, <<73>>),
      Desc(<<98>>, SP, <<99, TAB, 100>>, <<65, 67>>, <<73, AT>>) }

\* headers whose first whitespace byte is a tab
TabHeaderRecs ==
    { Desc(<<97>>, TAB, <<100>>, <<65>>, <<73>>),
      Desc(<<97>>, TAB, <<98, SP, 99>>, <<65>>, <<73>>) }

\* quality shorter than the sequence, longer than it, or wrapped
BadQualRecs ==
    { Desc(<<97>>, 0, <<>>, <<65, 67>>, <<73>>),
      Desc(<<98>>, 0, <<>>, <<65>>, <<>>),
      Desc(<<97>>, 0, <<>>, <<65>>, <<73, 73>>),
      Desc(<<98>>, 0, <<>>, <<65>>, <<73, AT>>),
      Desc(<<97>>, 0, <<>>, <<65, 67>>, <<73, NL, 73>>),
      Desc(<<98>>, 0, <<>>, <<65, 67>>, <<73, SP, 73>>) }

Recs == WellFormedRecs \cup TabHeaderRecs \cup BadQualRecs

RecLists(S) == UNION {[1..n -> S] : n \in 0..MaxRecs}

Render1(r) ==
    <<AT>> \o r.id \o (IF r.sep = 0 THEN <<>> ELSE <<r.sep>> \o r.desc) \o <<NL>>
        \o r.seq \o <<NL, PLUS, NL>> \o r.qual \o <<NL>>

RECURSIVE Render(_)
Render(rs) == IF rs = <<>> THEN <<>> ELSE Render1(Head(rs)) \o Render(Tail(rs))

NonWs(s) == Cardinality({i \in DOMAIN s : ~is_ascii_whitespace(s[i])})
HasWs(s) == \E i \in DOMAIN s : is_ascii_whitespace(s[i])

\* a well-formed four-line record: header '@id[ desc]', one non-empty
\* sequence line, one quality line of the same length, printable bytes
WellFormed(r) ==
    /\ r.id # <<>> /\ ~HasWs(r.id)
    /\ r.sep \in {0, SP}
    /\ r.seq # <<>> /\ ~HasWs(r.seq)
    /\ Len(r.qual) = Len(r.seq)
    /\ \A i \in DOMAIN r.qual : r.qual[i] >= 33 /\ r.qual[i] <= 126

AllWellFormed(rs) == \A i \in DOMAIN rs : WellFormed(rs[i])

\* the record a descriptor stands for
Expected(r) ==
    Record(r.id, IF r.sep = 0 THEN NoDesc ELSE SomeDesc(r.desc), r.seq, r.qual)

ExpectedAll(rs) == [i \in DOMAIN rs |-> Expected(rs[i])]

---------------------------------------------------------------------------
(* The sequential parser driven by a caller: Parser::new, then             *)
(* parse_record until it answers 'no more records'.                        *)
Ret(kind, rec, err) == [kind |-> kind, rec |-> rec, err |-> err]

ParserIdle ==
    /\ pos = 0 /\ line = 1 /\ res = Ret("start", NoRec, NoErr) /\ out = <<>>
    /\ calls = 0

ParIdle ==
    /\ p_state = "init" /\ p_threads = 1 /\ p_target = 1
    /\ p_chunks = <<>> /\ p_parsed = <<>> /\ p_result = Ret("start", <<>>, NoErr)

StreamIdle ==
    /\ s_rest = <<>> /\ s_win = <<>> /\ s_pos = 0 /\ s_capacity = 0
    /\ s_eof = FALSE /\ s_last = Ret("start", NoRec, NoErr) /\ s_out = <<>>
    /\ s_tick = 0

\* the region is the rendered records as they are
Plain == [lead |-> <<>>, tail |-> <<>>, cut |-> NONE, crlf |-> FALSE]

SimdIdle ==
    /\ f_region = <<>> /\ f_avx2 = FALSE /\ f_call = <<"none">> /\ f_ret = NONE

QualIdle == q_enc = "Phred33" /\ q_qual = <<>> /\ q_scores = <<>>

ReaderIdle ==
    /\ r_rest = <<>> /\ r_buffer = <<>> /\ r_position = 0 /\ r_eof = FALSE
    /\ r_records = <<>> /\ r_last = Ret("start", NoRec, NoErr) /\ r_out = <<>>

ChunkerIdle ==
    /\ k_rest = <<>> /\ k_chunk_size = 1 /\ k_overlap = 0 /\ k_last_chunk = FALSE
    /\ k_ret = <<"start">> /\ k_out = <<>>

ChanIdle ==
    /\ c_queue = <<>> /\ c_recv = "alive" /\ c_got = <<>> /\ c_pool = 1
    /\ c_active = {}

ProcIdle ==
    /\ w_state = <<>> /\ w_stats = [processed |-> 0, failed |-> 0]
    /\ w_progress = 0 /\ w_base = 0

LaterIdle == ReaderIdle /\ ChunkerIdle /\ ChanIdle /\ ProcIdle

ExtIdle == QualIdle /\ b_taken = 0 /\ LaterIdle

Init ==
    /\ \E rs \in RecLists(Recs) : src = rs /\ data = Render(rs)
    /\ shape = Plain
    /\ ParserIdle /\ ParIdle /\ StreamIdle /\ SimdIdle /\ ExtIdle

ParseRecord ==
    /\ res.kind # "none"
    /\ LET r == parse_record(data, pos, line)
       IN  /\ pos' = r.pos
           /\ line' = r.line
           /\ res' = Ret(r.kind, r.rec, r.err)
           /\ out' = IF r.kind = "record" THEN Append(out, r.rec) ELSE out
           /\ calls' = calls + 1
    /\ UNCHANGED <<src, data, parVars, streamVars,
                   shape, simdVars, extVars>>

Next == ParseRecord

Spec == Init /\ [][Next]_vars

---------------------------------------------------------------------------
(* Claims about the sequential parser.                                     *)

\* the input is a well-formed prefix of i-1 records followed by record i,
\* and exactly i calls have been made: res is the answer for record i
AtRecord(i) == i \in DOMAIN src /\ calls = i /\ AllWellFormed(SubSeq(src, 1, i - 1))

\* C1: on a concatenation of n well-formed four-line records (quality of any
\* printable bytes, '@' and '+' included as first byte) the calls yield the n
\* records in file order with their id, desc, seq and qual, no error, and
\* 'no more records' only after all n.
C1_WellFormedYieldsAll ==
    AllWellFormed(src) =>
        /\ res.kind # "error"
        /\ Len(out) <= Len(src)
        /\ \A i \in DOMAIN out : out[i] = Expected(src[i])
        /\ (res.kind = "none" => Len(out) = Len(src))

C1_Witness ==
    /\ AllWellFormed(src) /\ Len(src) = 2
    /\ src[1].qual[1] = AT /\ src[2].qual[1] = PLUS
    /\ res.kind = "none" /\ Len(out) = 2

\* C7: every yielded record has len(seq) = len(qual).
C7_SeqQualSameLength ==
    \A i \in DOMAIN out : Len(out[i].seq) = Len(out[i].qual)

C7_Witness ==
    /\ Len(out) = 2 /\ Len(out[2].seq) = 2 /\ Len(out[2].qual) = 2

\* one sequence line of L bytes and one quality line without whitespace
\* holding fewer (ShortQual) or more (LongQual) bytes than L
PlainLines(r) ==
    /\ r.id # <<>> /\ ~HasWs(r.id) /\ r.sep \in {0, SP}
    /\ r.seq # <<>> /\ ~HasWs(r.seq) /\ ~HasWs(r.qual)
ShortQual(r) == PlainLines(r) /\ Len(r.qual) < Len(r.seq)
LongQual(r) == PlainLines(r) /\ Len(r.qual) > Len(r.seq)

\* C8 as claimed: a record whose quality holds fewer non-whitespace bytes
\* than L gives LengthMismatch{L, that record's count}, last or not.
C8_Original ==
    \A i \in DOMAIN src :
        (AtRecord(i) /\ ShortQual(src[i])) =>
            res = Ret("error", NoRec, LengthMismatch(Len(src[i].seq), NonWs(src[i].qual)))

\* C8 as amended: a record whose quality holds fewer non-whitespace bytes
\* than L yields no record and gives LengthMismatch with seq_len = L;
\* qual_len is that record's count when nothing but whitespace follows the
\* record, and is larger than that count when further records follow.
C8_ShortQualityMismatch ==
    \A i \in DOMAIN src :
        (AtRecord(i) /\ ShortQual(src[i])) =>
            /\ res.kind = "error" /\ res.err.tag = "LengthMismatch"
            /\ Len(out) = i - 1
            /\ res.err.a = Len(src[i].seq)
            /\ (i = Len(src) => res.err.b = NonWs(src[i].qual))
            /\ (i < Len(src) => res.err.b > NonWs(src[i].qual))

C8_Witness ==
    /\ Len(src) = 2 /\ AtRecord(1) /\ ShortQual(src[1])
    /\ res.err = LengthMismatch(2, 3)

\* C9: a record whose quality line holds more non-whitespace bytes than L
\* fails with LengthMismatch and is never yielded with a truncated qual.
C9_LongQualityRejected ==
    \A i \in DOMAIN src :
        (AtRecord(i) /\ LongQual(src[i])) =>
            /\ res.kind = "error" /\ res.err.tag = "LengthMismatch"
            /\ Len(out) = i - 1

\* the header body of a descriptor, and its split at the first space or tab
HeaderBody(r) == r.id \o (IF r.sep = 0 THEN <<>> ELSE <<r.sep>> \o r.desc)
FirstBlank(h) ==
    LET blanks == {k \in DOMAIN h : h[k] \in {SP, TAB}}
    IN  IF blanks = {} THEN 0 ELSE MinOf(blanks)

GoodLines(r) ==
    /\ r.seq # <<>> /\ ~HasWs(r.seq) /\ ~HasWs(r.qual) /\ Len(r.qual) = Len(r.seq)

\* C10: the header body is split at its first space or tab, whichever is
\* earlier; the id holds neither, and desc is absent exactly when the body
\* holds neither.
C10_HeaderSplitAtFirstBlank ==
    (\A i \in DOMAIN src : GoodLines(src[i])) =>
        \A i \in DOMAIN out :
            LET h == HeaderBody(src[i])
                k == FirstBlank(h)
            IN  /\ \A j \in DOMAIN out[i].id : out[i].id[j] \notin {SP, TAB}
                /\ IF k = 0
                   THEN out[i].id = h /\ out[i].desc = NoDesc
                   ELSE /\ out[i].id = SubSeq(h, 1, k - 1)
                        /\ out[i].desc = SomeDesc(SubSeq(h, k + 1, Len(h)))

---------------------------------------------------------------------------
(* ParallelParser (src/src/parallel.rs).                                   *)
(*                                                                         *)
(* CHUNK_SIZE is 1 MiB in the code, so that a region splits only when it   *)
(* is longer than that.  The model's regions are a few dozen bytes: the    *)
(* floor is an input here (p_target), scaled with the regions, and         *)
(* chunk_size is computed from it as the code computes it from CHUNK_SIZE. *)
MaxThreads == 3
MaxChunkFloor == 4

RECURSIVE boundary_scan(_, _)
\* the inner while loop: the first '@' at or after end that follows a newline
boundary_scan(d, end) ==
    IF end >= Len(d) THEN end
    ELSE LET at_pos == find_char(d, AT, end)
         IN  IF at_pos = NONE THEN Len(d)
             ELSE IF at_pos > 0 /\ d[at_pos] = NL THEN at_pos
             ELSE boundary_scan(d, at_pos + 1)

RECURSIVE boundary_loop_drop_tail(_, _, _)
\* the outer loop without the push of its else branch
boundary_loop_drop_tail(d, chunk_size, start) ==
    IF start >= Len(d) THEN <<>>
    ELSE LET end0 == IF start + chunk_size < Len(d) THEN start + chunk_size ELSE Len(d)
         IN  IF end0 < Len(d)
             THEN LET end == boundary_scan(d, end0)
                  IN  <<(<<start, end>>)>> \o boundary_loop_drop_tail(d, chunk_size, end)
             ELSE <<>>

RECURSIVE boundary_loop(_, _, _)
\* the outer while loop, from chunk start `start`
boundary_loop(d, chunk_size, start) ==
    IF start >= Len(d) THEN <<>>
    ELSE LET end0 == IF start + chunk_size < Len(d) THEN start + chunk_size ELSE Len(d)
         IN  IF end0 < Len(d)
             THEN LET end == boundary_scan(d, end0)
                  IN  <<(<<start, end>>)>> \o boundary_loop(d, chunk_size, end)
             ELSE <<(<<start, Len(d)>>)>>

find_record_boundaries(d, num_threads, chunk_floor) ==
    IF Len(d) = 0 THEN <<>>
    ELSE LET q == Len(d) \div num_threads
             chunk_size == IF q > chunk_floor THEN q ELSE chunk_floor
         IN  boundary_loop(d, chunk_size, 0)

(* impl Iterator for Parser: next() gives the record, and ends the          *)
(* iteration on 'no more records' and on an error alike.  A worker's view  *)
(* of its chunk is the parser's cursor, the records pushed so far, whether *)
(* the for loop has ended, and (ghost) the error next() dropped.           *)
Pending == [pos |-> 0, line |-> 1, records |-> <<>>, done |-> FALSE, err |-> NoErr]

iterator_next(d, w) ==
    LET r == parse_record(d, w.pos, w.line)
    IN  IF r.kind = "record"
        THEN [pos |-> r.pos, line |-> r.line, records |-> Append(w.records, r.rec),
              done |-> FALSE, err |-> NoErr]
        ELSE [pos |-> r.pos, line |-> r.line, records |-> w.records,
              done |-> TRUE, err |-> r.err]

\* `parser.collect()` / `for record in parser`: next() until it gives None
RECURSIVE collect(_, _)
collect(d, w) == IF w.done THEN w ELSE collect(d, iterator_next(d, w))

RECURSIVE concat_chunks(_)
\* try_fold / try_reduce over Ok values: the chunks' vectors, extended in turn
concat_chunks(parsed) ==
    IF parsed = <<>> THEN <<>> ELSE Head(parsed).records \o concat_chunks(Tail(parsed))

ParInit ==
    /\ \E rs \in RecLists(Recs) : src = rs /\ data = Render(rs)
    /\ p_threads \in 1..MaxThreads
    /\ p_target \in 1..MaxChunkFloor
    /\ p_state = "init" /\ p_chunks = <<>> /\ p_parsed = <<>>
    /\ p_result = Ret("start", <<>>, NoErr)
    /\ shape = Plain
    /\ ParserIdle /\ StreamIdle /\ SimdIdle /\ ExtIdle

FindBoundaries ==
    /\ p_state = "init"
    /\ p_chunks' = find_record_boundaries(data, p_threads, p_target)
    /\ p_parsed' = [i \in DOMAIN p_chunks' |-> Pending]
    /\ p_state' = "split"
    /\ UNCHANGED <<src, data, parserVars, streamVars, p_threads, p_target, p_result,
                   shape, simdVars, extVars>>

\* the rayon worker holding chunk i runs one turn of its for loop over
\* Parser::new(&data[start..end])
WorkerNext(i) ==
    /\ p_state = "split"
    /\ ~p_parsed[i].done
    /\ p_parsed' = [p_parsed EXCEPT ![i] =
           iterator_next(Slice(data, p_chunks[i][1], p_chunks[i][2]), p_parsed[i])]
    /\ UNCHANGED <<src, data, parserVars, streamVars,
                   p_state, p_threads, p_target, p_chunks, p_result,
                   shape, simdVars, extVars>>

\* every chunk's closure returned Ok(records): the reduction is Ok too
Reduce ==
    /\ p_state = "split"
    /\ \A i \in DOMAIN p_parsed : p_parsed[i].done
    /\ p_result' = Ret("ok", concat_chunks(p_parsed), NoErr)
    /\ p_state' = "done"
    /\ UNCHANGED <<src, data, parserVars, streamVars,
                   p_threads, p_target, p_chunks, p_parsed,
                   shape, simdVars, extVars>>

ParNext ==
    \/ FindBoundaries
    \/ \E i \in DOMAIN p_parsed : WorkerNext(i)
    \/ Reduce

ParSpec == ParInit /\ [][ParNext]_vars

---------------------------------------------------------------------------
(* Claims about the parallel driver.                                       *)
BagOf(s) ==
    [x \in {s[i] : i \in DOMAIN s} |-> Cardinality({i \in DOMAIN s : s[i] = x})]

\* the offsets at which the sequential parse of the region begins a record
RECURSIVE RecordStarts(_, _, _)
RecordStarts(d, p, l) ==
    LET r == parse_record(d, p, l)
    IN  IF r.kind = "record"
        THEN {skip_whitespace(d, p, l).pos} \cup RecordStarts(d, r.pos, r.line)
        ELSE {}

\* C2: on a well-formed region, for every worker count and chunk size, parse
\* returns the same multiset of records as the sequential Parser.
C2_ParallelEqualsSequential ==
    (AllWellFormed(src) /\ p_state = "done") =>
        /\ p_result.kind = "ok"
        /\ BagOf(p_result.rec) = BagOf(collect(data, Pending).records)

\* C3: every chunk start is offset 0 or an offset at which the sequential
\* parse of the region begins a record.
C3_ChunkStartsAreRecordStarts ==
    (AllWellFormed(src) /\ p_state # "init") =>
        \A i \in DOMAIN p_chunks :
            p_chunks[i][1] = 0 \/ p_chunks[i][1] \in RecordStarts(data, 0, 1)

\* C4: when parse_record fails in some chunk, parse returns that error,
\* never Ok with records missing.
C4_ParallelPropagatesError ==
    (p_state = "done" /\ \E i \in DOMAIN p_parsed : p_parsed[i].err # NoErr) =>
        p_result.kind = "error"

---------------------------------------------------------------------------
(* BufferedReader (src/src/buffer.rs) and StreamingParser::parse_next      *)
(* (src/src/parser.rs), driven by StreamingIterator::next                  *)
(* (src/src/reader.rs).  The reader is the record                          *)
(*   [win: buffer[0..cap], pos, eof, rest: what the source still holds];   *)
(* cap is Len(win).  A read() of the source delivers at least one byte     *)
(* while it has any, and at most what it is asked for and what fits.       *)
MaxRead == 3

\* what one read() call is willing to deliver: 1..MaxRead bytes, or (0) all
\* that fits
FullRead == 0
ReadSizes == (1..MaxRead) \cup {FullRead}

\* the window sizes tried: the least the claim allows, one short record,
\* more than a whole region
Capacities == {4, 9, 32}

Min2(a, b) == IF a < b THEN a ELSE b

\* BufferedReader::available
available(b) == Len(b.win) - b.pos

\* BufferedReader::consumed
consumed(b) == Slice(b.win, b.pos, Len(b.win))

\* BufferedReader::consume
consume(b, amt) == [b EXCEPT !.pos = Min2(b.pos + amt, Len(b.win))]

\* BufferedReader::fill_buffer; n is what the source's read() would deliver
fill_buffer(b, capacity, n) ==
    IF b.eof THEN b
    ELSE LET win1 == IF b.pos > 0 THEN Slice(b.win, b.pos, Len(b.win)) ELSE b.win
             space == capacity - Len(win1)
             want == IF n = FullRead THEN space ELSE Min2(n, space)
             bytes_read == Min2(want, Len(b.rest))
         IN  [win |-> win1 \o SubSeq(b.rest, 1, bytes_read),
              pos |-> 0,
              eof |-> (bytes_read = 0),
              rest |-> SubSeq(b.rest, bytes_read + 1, Len(b.rest))]

\* BufferedReader::ensure_buffer (b2 is the reader after one fill_buffer)
RECURSIVE ensure_buffer(_, _, _, _)
ensure_buffer(b, capacity, min_size, n) ==
    IF available(b) < min_size /\ ~b.eof
    THEN TheOne({ensure_buffer(b2, capacity, min_size, n) :
                    b2 \in {fill_buffer(b, capacity, n)}})
    ELSE b

\* StreamingParser::parse_next after ensure_buffer: b1 is the reader, r what
\* Parser::new(buffer).parse_record() returned
parse_window(b1, r) ==
    IF consumed(b1) = <<>> THEN [reader |-> b1, ret |-> Ret("none", NoRec, NoErr)]
    ELSE IF r.kind = "error" THEN [reader |-> b1, ret |-> Ret("error", NoRec, r.err)]
    ELSE IF r.kind = "record"
    THEN [reader |-> consume(b1, r.pos), ret |-> Ret("record", r.rec, NoErr)]
    ELSE [reader |-> b1, ret |-> Ret("none", NoRec, NoErr)]

\* StreamingParser::parse_next: the reader it leaves and what it returns
parse_next(b, capacity, n) ==
    TheOne({ TheOne({ parse_window(b1, r) : r \in {parse_record(consumed(b1), 0, 1)} }) :
                 b1 \in {ensure_buffer(b, capacity, 4, n)} })

StreamInit ==
    /\ \E rs \in RecLists(Recs) : src = rs /\ data = Render(rs)
    /\ s_rest = data
    /\ s_win = <<>> /\ s_pos = 0 /\ s_eof = FALSE
    /\ s_capacity \in Capacities
    /\ s_last = Ret("start", NoRec, NoErr) /\ s_out = <<>> /\ s_tick = 0
    /\ shape = Plain
    /\ ParserIdle /\ ParIdle /\ SimdIdle /\ ExtIdle

\* StreamingIterator::next, called by a consumer that goes on until None
StreamNext ==
    /\ s_last.kind # "none"
    /\ \E n \in ReadSizes :
          LET x == parse_next([win |-> s_win, pos |-> s_pos, eof |-> s_eof, rest |-> s_rest],
                              s_capacity, n)
          IN  /\ s_win' = x.reader.win
              /\ s_pos' = x.reader.pos
              /\ s_eof' = x.reader.eof
              /\ s_rest' = x.reader.rest
              /\ s_last' = x.ret
              /\ s_out' = IF x.ret.kind = "record" THEN Append(s_out, x.ret.rec) ELSE s_out
    /\ s_tick' = 1 - s_tick
    /\ UNCHANGED <<src, data, parserVars, parVars, s_capacity,
                   shape, simdVars, extVars>>

StreamSpec == StreamInit /\ [][StreamNext]_vars

\* the consumer does go on calling next() while it has not seen None
FairStreamSpec == StreamSpec /\ WF_vars(StreamNext)

---------------------------------------------------------------------------
(* Claims about the streaming parser.                                      *)
IsPrefix(s, u) == Len(s) <= Len(u) /\ s = SubSeq(u, 1, Len(s))

\* C5: on a well-formed input, however the source splits it into reads and
\* whatever the window capacity (>= 4), the streaming parser yields without
\* error exactly the records of the in-memory Parser, in order.
C5_StreamEqualsInMemory ==
    AllWellFormed(src) =>
        /\ s_last.kind # "error"
        /\ IsPrefix(s_out, collect(data, Pending).records)
        /\ (s_last.kind = "none" => s_out = collect(data, Pending).records)

\* C6: on every finite input the streaming iterator ends with None: a
\* consumer that keeps calling next() gets finitely many items.
C6_StreamIteratorEnds == <>(s_last.kind = "none")

---------------------------------------------------------------------------
(* Regions as a text file may hold them: records of four (or more)         *)
(* physical lines whose header and separator lines start with any bytes,   *)
(* between leading and trailing blank lines, with LF or CRLF line          *)
(* terminators, or cut at a byte offset.  The parser is the same Parser,   *)
(* driven by the same caller.                                              *)

\* a descriptor with the bytes that open its header line and its third line
Shaped(r, head, plus) ==
    [id |-> r.id, sep |-> r.sep, desc |-> r.desc, seq |-> r.seq, qual |-> r.qual,
     head |-> head, plus |-> plus]

\* '-' 45
TextRecs ==
    { \* well-formed four-line records
      Shaped(Desc(<<97>>, 0, <<>>, <<65>>, <<73>>), <<AT>>, <<PLUS>>),
      Shaped(Desc(<<98>>, SP, <<100>>, <<65, 67>>, <<AT, 73>>), <<AT>>, <<PLUS>>),
      \* an empty sequence line and an empty quality line
      Shaped(Desc(<<97>>, 0, <<>>, <<>>, <<>>), <<AT>>, <<PLUS>>),
      \* a sequence wrapped over two lines, the quality counted without and
      \* with the line terminator
      Shaped(Desc(<<98>>, 0, <<>>, <<65, NL, 67>>, <<73, 73>>), <<AT>>, <<PLUS>>),
      Shaped(Desc(<<98>>, 0, <<>>, <<65, NL, 67>>, <<73, 73, 73>>), <<AT>>, <<PLUS>>),
      \* sequence lines that hold nothing but a space
      Shaped(Desc(<<97>>, 0, <<>>, <<SP, NL, SP>>, <<73>>), <<AT>>, <<PLUS>>),
      \* a header line that does not start with '@'
      Shaped(Desc(<<97>>, 0, <<>>, <<65>>, <<73>>), <<>>, <<PLUS>>),
      \* a third line that does not start with '+'
      Shaped(Desc(<<97>>, 0, <<>>, <<65>>, <<73>>), <<AT>>, <<45>>),
      Shaped(Desc(<<98>>, 0, <<>>, <<65, 67>>, <<73, 73>>), <<AT>>, <<>>) }

\* blank lines before the first record or after the last one
Blanks == { <<>>, <<NL>>, <<SP, NL, NL>> }
Margins == { m \in Blanks \X Blanks : m[1] = <<>> \/ m[2] = <<>> }

RenderLines1(r) ==
    r.head \o r.id \o (IF r.sep = 0 THEN <<>> ELSE <<r.sep>> \o r.desc) \o <<NL>>
        \o r.seq \o <<NL>> \o r.plus \o <<NL>> \o r.qual \o <<NL>>

RECURSIVE RenderLines(_)
RenderLines(rs) ==
    IF rs = <<>> THEN <<>> ELSE RenderLines1(Head(rs)) \o RenderLines(Tail(rs))

\* every '\n' replaced by '\r\n'
RECURSIVE ToCrlf(_)
ToCrlf(s) ==
    IF s = <<>> THEN <<>>
    ELSE (IF Head(s) = NL THEN <<CR, NL>> ELSE <<Head(s)>>) \o ToCrlf(Tail(s))

\* the region before it is cut
Whole(rs, sh) ==
    IF sh.crlf THEN ToCrlf(sh.lead \o RenderLines(rs) \o sh.tail)
    ELSE sh.lead \o RenderLines(rs) \o sh.tail

Region(rs, sh) ==
    IF sh.cut = NONE THEN Whole(rs, sh) ELSE SubSeq(Whole(rs, sh), 1, sh.cut)

\* the shapes tried: LF or CRLF regions with blank margins, and LF regions
\* without margins cut at every offset
Shapes(rs) ==
    { [lead |-> m[1], tail |-> m[2], cut |-> NONE, crlf |-> c] :
          m \in Margins, c \in BOOLEAN }
    \cup { [lead |-> <<>>, tail |-> <<>>, cut |-> k, crlf |-> FALSE] :
               k \in 0 .. (Len(RenderLines(rs)) - 1) }

TextInit ==
    /\ \E rs \in RecLists(TextRecs) : \E sh \in Shapes(rs) :
          src = rs /\ shape = sh /\ data = Region(rs, sh)
    /\ ParserIdle /\ ParIdle /\ StreamIdle /\ SimdIdle /\ ExtIdle

TextSpec == TextInit /\ [][Next]_vars

---------------------------------------------------------------------------
(* Claims about the parser on such regions.                                *)

\* header and separator lines open as the format says
FourLine(r) == r.head = <<AT>> /\ r.plus = <<PLUS>>
WellFormedText(r) == WellFormed(r) /\ FourLine(r)
Uncut == shape.cut = NONE

\* records 1..i-1 are well-formed and exactly i calls have been made: res is
\* the answer for what the region holds of record i
AtCall(i) ==
    /\ i \in DOMAIN src /\ calls = i
    /\ \A j \in 1 .. (i - 1) : WellFormedText(src[j])

\* the same, the region being whole
AtTextRecord(i) == AtCall(i) /\ Uncut

EmptySeq(r) ==
    /\ FourLine(r) /\ r.id # <<>> /\ ~HasWs(r.id) /\ r.sep \in {0, SP}
    /\ r.seq = <<>> /\ r.qual = <<>>

\* C11: a record with an empty sequence line and an empty quality line is
\* accepted: parse_record yields it with zero-length seq and qual, no error.
C11_EmptySequenceAccepted ==
    \A i \in DOMAIN src :
        (AtTextRecord(i) /\ EmptySeq(src[i])) =>
            /\ res.kind = "record"
            /\ res.rec = Expected(src[i])
            /\ Len(out) = i

\* the non-whitespace bytes of s, in order
NotWs(b) == ~is_ascii_whitespace(b)
StripWs(s) == SelectSeq(s, NotWs)

\* a sequence wrapped over several physical lines, and a one-line quality
\* holding as many bytes as the sequence has non-whitespace bytes
Wrapped(r) ==
    /\ FourLine(r) /\ r.id # <<>> /\ ~HasWs(r.id) /\ r.sep \in {0, SP}
    /\ \E k \in DOMAIN r.seq : r.seq[k] = NL
    /\ r.seq[1] # NL /\ r.seq[Len(r.seq)] # NL
    /\ ~HasWs(r.qual) /\ Len(r.qual) = NonWs(r.seq)

\* C12: for a sequence wrapped over several lines, seq is exactly the
\* non-whitespace bytes between the header and the separator line, in order,
\* and the record is yielded with the quality of that many bytes.
C12_WrappedSequenceJoined ==
    \A i \in DOMAIN src :
        (AtTextRecord(i) /\ Wrapped(src[i])) =>
            /\ res.kind = "record"
            /\ res.rec.seq = StripWs(src[i].seq)
            /\ res.rec.qual = src[i].qual
            /\ Len(out) = i

\* the offset at which record i begins in the region
OffsetOf(i) == Len(Whole(SubSeq(src, 1, i - 1), [shape EXCEPT !.tail = <<>>]))

\* the 1-based number of the physical line that holds offset off
LineOf(off) == 1 + Cardinality({k \in 1 .. off : data[k] = NL})

\* the header line of the record opens with a byte other than '@'
BadHead(r) == (r.head \o r.id) # <<>> /\ (r.head \o r.id)[1] # AT

\* C13: where a record is expected and the first non-whitespace byte is not
\* '@', parse_record returns InvalidHeader{line}, line being the 1-based
\* number of the physical line holding that byte, whether or not blank
\* lines precede and whether or not a newline ends the offending line.
C13_InvalidHeaderLine ==
    \A i \in DOMAIN src :
        (AtCall(i) /\ BadHead(src[i]) /\ OffsetOf(i) < Len(data)) =>
            res = Ret("error", NoRec, InvalidHeader(LineOf(OffsetOf(i))))

\* record i up to the end of its third line, as the region encodes it
Encoded(s) == IF shape.crlf THEN ToCrlf(s) ELSE s
UptoThird(r) ==
    r.head \o r.id \o (IF r.sep = 0 THEN <<>> ELSE <<r.sep>> \o r.desc) \o <<NL>>
        \o r.seq \o <<NL>> \o r.plus

\* a four-line record with one sequence line whose third line does not
\* start with '+'
BadPlus(r) ==
    /\ r.head = <<AT>> /\ r.id # <<>> /\ ~HasWs(r.id) /\ r.sep \in {0, SP}
    /\ r.seq # <<>> /\ ~HasWs(r.seq)
    /\ (r.plus = <<>> \/ r.plus[1] # PLUS)

\* the region holds the third line of record i: all of the record, or (the
\* region being cut) at least the bytes of a non-empty third line
HoldsThird(i) ==
    \/ Uncut
    \/ /\ src[i].plus # <<>>
       /\ shape.cut >= OffsetOf(i) + Len(Encoded(UptoThird(src[i])))

\* C14: a four-line record whose third line does not start with '+' fails
\* with InvalidSeparator, whether or not a newline ends that line and
\* whether or not further records follow.
C14_InvalidSeparator ==
    \A i \in DOMAIN src :
        (AtCall(i) /\ BadPlus(src[i]) /\ HoldsThird(i)) =>
            res.kind = "error" /\ res.err.tag = "InvalidSeparator"

\* the region is cut strictly inside record i, and the cut removes more of
\* record i than its final line terminator
CutIn(i) ==
    /\ i \in DOMAIN src /\ shape.cut # NONE
    /\ OffsetOf(i) < shape.cut /\ shape.cut < OffsetOf(i + 1) - 1

\* C15: a region of well-formed four-line records cut strictly inside record
\* i (by more than that record's final line terminator) yields the i-1
\* complete records before the cut, and then parse_record fails with
\* UnexpectedEof or LengthMismatch: no other error, no silent end.
C15_TruncatedIsError ==
    \A i \in DOMAIN src :
        ((\A j \in 1 .. i : WellFormedText(src[j])) /\ ~shape.crlf /\ CutIn(i)) =>
            /\ calls < i =>
                  /\ out = ExpectedAll(SubSeq(src, 1, calls))
                  /\ (calls > 0 => res.kind = "record")
            /\ calls = i =>
                  /\ res.kind = "error"
                  /\ res.err.tag \in {"UnexpectedEof", "LengthMismatch"}
                  /\ out = ExpectedAll(SubSeq(src, 1, i - 1))

C15_Witness ==
    /\ Len(src) = 2 /\ WellFormedText(src[1]) /\ WellFormedText(src[2])
    /\ ~shape.crlf /\ CutIn(2) /\ calls = 2
    /\ res.kind = "error" /\ res.err.tag = "LengthMismatch"
    /\ Len(out) = 1

\* every byte of d from offset p on is ASCII whitespace
AllWsFrom(d, p) == \A k \in (p + 1) .. Len(d) : is_ascii_whitespace(d[k])

\* C16: a parse_record call answers 'no more records' exactly when every
\* byte from the cursor to the end of the region is ASCII whitespace (the
\* empty region and trailing blank lines included); once a header byte is
\* there, the end of the region is an error or a record, never a silent end.
C16_NoneIffOnlyWhitespace ==
    [][(res'.kind = "none") <=> AllWsFrom(data, pos)]_vars

C16_Witness ==
    /\ Len(src) = 1 /\ shape.tail = <<SP, NL, NL>> /\ ~shape.crlf
    /\ Len(out) = 1 /\ calls = 2 /\ res.kind = "none"

\* C18: a well-formed region of four-line records with every '\n' replaced
\* by '\r\n' yields the records of the '\n' form: same ids, descriptions,
\* sequences and qualities, no '\r' at the end of any of them.
C18_CrlfParsesAlike ==
    ((\A j \in DOMAIN src : WellFormedText(src[j])) /\ shape.crlf /\ Uncut) =>
        /\ res.kind # "error"
        /\ Len(out) <= Len(src)
        /\ out = ExpectedAll(SubSeq(src, 1, Len(out)))
        /\ (res.kind = "none" => Len(out) = Len(src))

C18_Witness ==
    /\ Len(src) = 2 /\ WellFormedText(src[1]) /\ WellFormedText(src[2])
    /\ src[2].sep = SP /\ shape.crlf /\ Uncut
    /\ res.kind = "none" /\ Len(out) = 2

---------------------------------------------------------------------------
(* FastqWriter::write_record (src/src/writer.rs): the bytes written for a  *)
(* record.                                                                 *)
write_record(r) ==
    <<AT>> \o r.id
        \o (IF r.desc # NoDesc THEN <<SP>> \o r.desc[1] ELSE <<>>)
        \o <<NL>> \o r.seq \o <<NL, PLUS, NL>> \o r.qual \o <<NL>>

\* what the Parser makes of the bytes written for r: the records it yields
\* and the error, if any, that ended the parse
Reparsed(r) == collect(write_record(r), Pending)

\* C17: a record yielded by the Parser, written with write_record and parsed
\* again, gives exactly one record, equal to it in id, desc, seq and qual.
C17_WriteParseRoundTrip ==
    \A i \in DOMAIN out :
        /\ Reparsed(out[i]).records = <<out[i]>>
        /\ Reparsed(out[i]).err = NoErr

---------------------------------------------------------------------------
(* The byte-scanning primitives of src/src/simd.rs.  has_avx2() is fixed   *)
(* for a process by the build target and the CPU (f_avx2).  A 256-bit      *)
(* vector is the 32 bytes of its lane; the i32 of _mm256_movemask_epi8 is  *)
(* the set of its bits that are 1, bit i standing for byte i of the lane.  *)
LANE == 32
MAX_ASCII == 127
MaxRegion == 65

\* `as i8`, and the signed reading of a vector's bytes
as_i8(b) == IF b > 127 THEN b - 256 ELSE b

\* chunks_exact(32): chunk idx of slice s, and the remainder
chunk_of(s, idx) == SubSeq(s, idx * LANE + 1, idx * LANE + LANE)
remainder_start(s) == (Len(s) \div LANE) * LANE
remainder(s) == SubSeq(s, remainder_start(s) + 1, Len(s))

\* _mm256_movemask_epi8(_mm256_cmpeq_epi8(vector, set1(target)))
cmpeq_mask(chunk, target) ==
    {i \in 0 .. (LANE - 1) : as_i8(chunk[i + 1]) = as_i8(target)}

\* _mm256_movemask_epi8(_mm256_cmpgt_epi8(vector, set1(limit))): a signed
\* comparison of each byte
cmpgt_mask(chunk, limit) ==
    {i \in 0 .. (LANE - 1) : as_i8(chunk[i + 1]) > as_i8(limit)}

\* i32::trailing_zeros of a mask that is not 0
trailing_zeros(mask) == MinOf(mask)

\* Iterator::position(|&b| b == target): a left-to-right scan from index i
RECURSIVE position(_, _, _)
position(s, target, i) ==
    IF i >= Len(s) THEN NONE
    ELSE IF s[i + 1] = target THEN i
    ELSE position(s, target, i + 1)

\* a lane loop that forgets the lanes already passed
RECURSIVE find_lanes_no_base(_, _, _, _)
find_lanes_no_base(s, target, start, chunk_idx) ==
    IF chunk_idx >= Len(s) \div LANE
    THEN LET i == position(remainder(s), target, 0)
         IN  IF i = NONE THEN NONE ELSE start + remainder_start(s) + i
    ELSE LET mask == cmpeq_mask(chunk_of(s, chunk_idx), target)
         IN  IF mask # {} THEN start + trailing_zeros(mask)
             ELSE find_lanes_no_base(s, target, start, chunk_idx + 1)

\* find_char_avx2: the loop over the chunks, then the remainder
RECURSIVE find_lanes(_, _, _, _)
find_lanes(s, target, start, chunk_idx) ==
    IF chunk_idx >= Len(s) \div LANE
    THEN LET i == position(remainder(s), target, 0)
         IN  IF i = NONE THEN NONE ELSE start + remainder_start(s) + i
    ELSE LET mask == cmpeq_mask(chunk_of(s, chunk_idx), target)
         IN  IF mask # {} THEN start + chunk_idx * LANE + trailing_zeros(mask)
             ELSE find_lanes(s, target, start, chunk_idx + 1)

find_char_avx2(d, target, start) == find_lanes(Slice(d, start, Len(d)), target, start, 0)

\* simd::find_char as it dispatches: the lane-wise path, or memchr
find_char_simd(avx2, d, target, start) ==
    IF avx2 THEN find_char_avx2(d, target, start) ELSE find_char(d, target, start)

\* validate_ascii_avx2: the loop over the chunks, then the remainder
RECURSIVE validate_lanes(_, _)
validate_lanes(s, chunk_idx) ==
    IF chunk_idx >= Len(s) \div LANE
    THEN \A k \in DOMAIN remainder(s) : remainder(s)[k] <= 127
    ELSE IF cmpgt_mask(chunk_of(s, chunk_idx), MAX_ASCII) # {} THEN FALSE
    ELSE validate_lanes(s, chunk_idx + 1)

validate_ascii_avx2(d) == validate_lanes(d, 0)

\* simd::validate_ascii as it dispatches
validate_ascii(avx2, d) ==
    IF avx2 THEN validate_ascii_avx2(d) ELSE \A k \in DOMAIN d : d[k] <= 127

\* The regions tried: a run of the greatest ASCII byte, of every length up
\* to two lanes and a byte, with at most one byte above it at any offset.
HIGH == MAX_ASCII + 1
OneOdd(len, p) == [k \in 1 .. len |-> IF k - 1 = p THEN HIGH ELSE MAX_ASCII]
Regions == { OneOdd(len, p) : len \in 0 .. MaxRegion, p \in (-1) .. (MaxRegion - 1) }
Targets == { MAX_ASCII, HIGH }

SimdInit ==
    /\ f_region \in Regions
    /\ f_avx2 \in BOOLEAN
    /\ f_call = <<"none">> /\ f_ret = NONE
    /\ src = <<>> /\ data = <<>> /\ shape = Plain
    /\ ParserIdle /\ ParIdle /\ StreamIdle /\ ExtIdle

\* one call of a primitive on the region
FindChar ==
    /\ f_call = <<"none">>
    /\ \E target \in Targets, start \in 0 .. Len(f_region) :
          /\ f_call' = <<"find_char", target, start>>
          /\ f_ret' = find_char_simd(f_avx2, f_region, target, start)
    /\ UNCHANGED <<src, data, shape, parserVars, parVars, streamVars, f_region, f_avx2, extVars>>

ValidateAscii ==
    /\ f_call = <<"none">>
    /\ f_call' = <<"validate_ascii">>
    /\ f_ret' = validate_ascii(f_avx2, f_region)
    /\ UNCHANGED <<src, data, shape, parserVars, parVars, streamVars, f_region, f_avx2, extVars>>

SimdNext == FindChar \/ ValidateAscii

SimdSpec == SimdInit /\ [][SimdNext]_vars

---------------------------------------------------------------------------
(* Claims about the byte-scanning primitives.                              *)

\* C19: find_char returns the least index i >= start with region[i] = target,
\* or none when there is none, on the lane-wise path with its scalar tail
\* and on the memchr path alike.
C19_FindCharLeastIndex ==
    f_call[1] = "find_char" =>
        LET target == f_call[2]
            start == f_call[3]
            hits == {i \in start .. (Len(f_region) - 1) : f_region[i + 1] = target}
        IN  /\ hits = {} => f_ret = NONE
            /\ hits # {} => f_ret \in hits /\ \A i \in hits : f_ret <= i

C19_Witness ==
    /\ f_avx2 /\ Len(f_region) = MaxRegion
    /\ f_call = <<"find_char", HIGH, 1>> /\ f_ret = LANE + 8

\* C20: validate_ascii answers true exactly when every byte of the region
\* is <= 127, for regions shorter than, as long as and longer than a lane,
\* on the lane-wise and on the scalar path.
C20_ValidateAsciiExact ==
    f_call[1] = "validate_ascii" =>
        (f_ret <=> \A k \in DOMAIN f_region : f_region[k] <= 127)

---------------------------------------------------------------------------
(* QualityEncoding::to_phred_scores and QualityEncoding::offset            *)
(* (src/src/record.rs).  A quality byte and a score are u8 values.         *)
U8_MAX == 255
MaxQual == 2

\* u8::saturating_sub
saturating_sub(q, k) == IF q >= k THEN q - k ELSE 0

\* to_phred_scores with the Unknown arm answering Phred33's scores
to_phred_scores_offset33(enc, qual_string) ==
    CASE enc = "Phred33" -> [i \in DOMAIN qual_string |-> saturating_sub(qual_string[i], 33)]
      [] enc = "Phred64" -> [i \in DOMAIN qual_string |-> saturating_sub(qual_string[i], 64)]
      [] enc = "Unknown" -> [i \in DOMAIN qual_string |-> saturating_sub(qual_string[i], 33)]

to_phred_scores(enc, qual_string) ==
    CASE enc = "Phred33" -> [i \in DOMAIN qual_string |-> saturating_sub(qual_string[i], 33)]
      [] enc = "Phred64" -> [i \in DOMAIN qual_string |-> saturating_sub(qual_string[i], 64)]
      [] enc = "Unknown" -> [i \in DOMAIN qual_string |-> 0]

offset(enc) ==
    CASE enc = "Phred33" -> 33
      [] enc = "Phred64" -> 64
      [] enc = "Unknown" -> 33

QualityEncoding == {"Phred33", "Phred64", "Unknown"}

\* the quality bytes tried: both ends of u8, and the bytes about each offset
QualBytes == {0, 32, 33, 34, 63, 64, 65, 73, U8_MAX}
QualStrings == UNION { [1 .. n -> QualBytes] : n \in 0 .. MaxQual }

QualInit ==
    /\ q_enc \in QualityEncoding
    /\ q_qual \in QualStrings
    /\ q_scores = <<>>
    /\ src = <<>> /\ data = <<>> /\ shape = Plain
    /\ ParserIdle /\ ParIdle /\ StreamIdle /\ SimdIdle /\ b_taken = 0 /\ LaterIdle

\* one call of to_phred_scores
ToPhredScores ==
    /\ q_scores = <<>>
    /\ q_scores' = <<to_phred_scores(q_enc, q_qual)>>
    /\ UNCHANGED <<src, data, shape, parserVars, parVars, streamVars, simdVars,
                   q_enc, q_qual, b_taken, laterVars>>

QualNext == ToPhredScores

QualSpec == QualInit /\ [][QualNext]_vars

\* C24: for every encoding and every quality byte q, to_phred_scores gives
\* max(0, q - offset(encoding)), one score per input byte.
C24_ScoresAreOffsetSubtracted ==
    q_scores # <<>> =>
        /\ Len(q_scores[1]) = Len(q_qual)
        /\ \A i \in DOMAIN q_qual :
              q_scores[1][i] = IF q_qual[i] - offset(q_enc) > 0
                               THEN q_qual[i] - offset(q_enc) ELSE 0

\* C24 (as the code has it): Phred33 and Phred64 give max(0, q - offset) for
\* every quality byte q; Unknown gives 0 for every byte; one score per input
\* byte in each case.
C24_ScoresPerEncoding ==
    q_scores # <<>> =>
        /\ Len(q_scores[1]) = Len(q_qual)
        /\ \A i \in DOMAIN q_qual :
              q_scores[1][i] =
                  IF q_enc = "Unknown" THEN 0
                  ELSE IF q_qual[i] - offset(q_enc) > 0
                       THEN q_qual[i] - offset(q_enc) ELSE 0

C24_Witness ==
    /\ q_enc = "Phred64" /\ q_qual = <<U8_MAX, 63>>
    /\ q_scores = << <<U8_MAX - 64, 0>> >>

---------------------------------------------------------------------------
(* find_record_boundaries on arbitrary regions: every byte string over a   *)
(* newline, '@' and a base, record-shaped or not.                          *)
MaxBytes == 5

ByteRegions == UNION { [1 .. n -> {NL, AT, 65}] : n \in 0 .. MaxBytes }

BoundaryInit ==
    /\ src = <<>> /\ data \in ByteRegions
    /\ p_threads \in 1..MaxThreads
    /\ p_target \in 1..MaxChunkFloor
    /\ p_state = "init" /\ p_chunks = <<>> /\ p_parsed = <<>>
    /\ p_result = Ret("start", <<>>, NoErr)
    /\ shape = Plain
    /\ ParserIdle /\ StreamIdle /\ SimdIdle /\ ExtIdle

BoundarySpec == BoundaryInit /\ [][FindBoundaries]_vars

\* C25: for every non-empty region of length n and every worker count >= 1,
\* the chunks of find_record_boundaries partition the region: the first
\* starts at 0, each is non-empty, each starts where the one before ends,
\* and the last ends at n.
C25_ChunksPartitionRegion ==
    (p_state = "split" /\ Len(data) > 0) =>
        /\ Len(p_chunks) >= 1
        /\ p_chunks[1][1] = 0
        /\ \A i \in DOMAIN p_chunks : p_chunks[i][1] < p_chunks[i][2]
        /\ \A i \in 1 .. (Len(p_chunks) - 1) : p_chunks[i + 1][1] = p_chunks[i][2]
        /\ p_chunks[Len(p_chunks)][2] = Len(data)

\* a region cut in three chunks, each cut moved on to the next "\n@"
C25_Witness ==
    /\ data = <<65, NL, AT, NL, AT>> /\ p_threads = 3 /\ p_target = 1
    /\ p_state = "split"
    /\ p_chunks = << <<0, 2>>, <<2, 4>>, <<4, 5>> >>

---------------------------------------------------------------------------
(* The cursor of the in-memory Parser over every call, on well-formed,     *)
(* malformed and cut regions, calls after an error included.               *)

\* C27: 0 <= pos <= len(region) in every state and pos never decreases; a
\* parse_record call that returns a record or an error strictly advances
\* pos; so at most len(region) calls return something other than 'no more
\* records'.
C27_CursorAdvances ==
    [][ /\ 0 <= pos' /\ pos' <= Len(data)
        /\ pos <= pos'
        /\ res'.kind # "none" => (pos < pos' /\ calls' <= Len(data)) ]_vars

\* a call made after an error that returned an error again, further on
C27_Witness ==
    /\ calls = 2 /\ res.kind = "error" /\ pos = Len(data)
    /\ \E i \in DOMAIN src : BadHead(src[i])

---------------------------------------------------------------------------
(* BufferedReader driven directly: any sequence of fill_buffer,            *)
(* ensure_buffer and consume calls.  The source's bytes are all different, *)
(* so that a byte lost, doubled or moved shows.                            *)
MaxSource == 6
MaxAmt == 3

Sources == { [i \in 1 .. n |-> 64 + i] : n \in 0 .. MaxSource }

BufInit ==
    /\ src = <<>> /\ data \in Sources /\ shape = Plain
    /\ s_rest = data /\ s_win = <<>> /\ s_pos = 0 /\ s_eof = FALSE
    /\ s_capacity \in Capacities
    /\ s_last = Ret("start", NoRec, NoErr) /\ s_out = <<>> /\ s_tick = 0
    /\ ParserIdle /\ ParIdle /\ SimdIdle /\ ExtIdle

\* the reader as the buffer operators take it
TheReader == [win |-> s_win, pos |-> s_pos, eof |-> s_eof, rest |-> s_rest]

Becomes(b) ==
    /\ s_win' = b.win /\ s_pos' = b.pos /\ s_eof' = b.eof /\ s_rest' = b.rest
    /\ UNCHANGED <<src, data, shape, parserVars, parVars, simdVars, qualVars,
                   s_capacity, s_last, s_out, s_tick, laterVars>>

FillBuffer ==
    /\ \E n \in ReadSizes : Becomes(fill_buffer(TheReader, s_capacity, n))
    /\ UNCHANGED b_taken

EnsureBuffer ==
    /\ \E min_size \in 1 .. MaxAmt, n \in ReadSizes :
          Becomes(ensure_buffer(TheReader, s_capacity, min_size, n))
    /\ UNCHANGED b_taken

Consume ==
    \E amt \in 0 .. MaxAmt :
        /\ Becomes(consume(TheReader, amt))
        /\ b_taken' = b_taken + Min2(amt, available(TheReader))

BufNext == FillBuffer \/ EnsureBuffer \/ Consume

BufSpec == BufInit /\ [][BufNext]_vars

\* C29: after any sequence of fill_buffer, ensure_buffer and consume calls,
\* 0 <= pos <= cap <= capacity, the bytes in pos..cap are exactly the source
\* bytes read and not yet consumed, in source order, and eof is set only
\* when the source has no more bytes to deliver.
C29_WindowHoldsUnconsumedBytes ==
    /\ 0 <= s_pos /\ s_pos <= Len(s_win) /\ Len(s_win) <= s_capacity
    /\ consumed(TheReader) = Slice(data, b_taken, Len(data) - Len(s_rest))
    /\ s_eof => s_rest = <<>>

\* the first two parts of C29 alone
C29_WindowPart ==
    /\ 0 <= s_pos /\ s_pos <= Len(s_win) /\ Len(s_win) <= s_capacity
    /\ consumed(TheReader) = Slice(data, b_taken, Len(data) - Len(s_rest))

---------------------------------------------------------------------------
(* StreamingReader (src/src/stream.rs).  The reader is the record          *)
(*   [rest, buffer, position, eof, records]                                *)
(* with rest what the source still holds.  A read() into the 1 MiB         *)
(* temp_buffer delivers at least one byte while the source has any; the    *)
(* regions here are far shorter than the temp_buffer, so that a read can   *)
(* deliver all that is left.                                               *)

\* StreamingReader::fill_buffer; n is what the source's read() would deliver
reader_fill_buffer(rd, n) ==
    IF rd.eof THEN rd
    ELSE LET buffer1 == IF rd.position > 0
                        THEN Slice(rd.buffer, rd.position, Len(rd.buffer))
                        ELSE rd.buffer
             got == IF n = FullRead THEN Len(rd.rest) ELSE Min2(n, Len(rd.rest))
         IN  IF got = 0
             THEN [rd EXCEPT !.buffer = buffer1, !.position = 0, !.eof = TRUE]
             ELSE [rd EXCEPT !.buffer = buffer1 \o SubSeq(rd.rest, 1, got),
                             !.position = 0,
                             !.rest = SubSeq(rd.rest, got + 1, Len(rd.rest))]

RECURSIVE last_complete_scan(_, _, _, _)
\* the while loop of find_last_complete_record, before its `pos -= 1`
last_complete_scan(buffer, from, p, newline_count) ==
    IF p > from /\ newline_count < 4
    THEN IF buffer[p] = NL
         THEN IF newline_count + 1 >= 3 /\ p < Len(buffer) /\ buffer[p + 1] = AT
              THEN p
              ELSE last_complete_scan(buffer, from, p - 1, newline_count + 1)
         ELSE last_complete_scan(buffer, from, p - 1, newline_count)
    ELSE from

find_last_complete_record(rd) ==
    last_complete_scan(rd.buffer, rd.position, Len(rd.buffer), 0)

\* parse_buffer once the slice is parsed: c is the parser's loop over it
parsed_buffer(rd, last_complete, c) ==
    IF c.err # NoErr
    THEN [err |-> c.err, rd |-> [rd EXCEPT !.records = rd.records \o c.records]]
    ELSE [err |-> NoErr, rd |-> [rd EXCEPT !.records = rd.records \o c.records,
                                           !.position = last_complete]]

parse_buffer(rd) ==
    IF rd.buffer = <<>> THEN [err |-> NoErr, rd |-> rd]
    ELSE LET found == find_last_complete_record(rd)
         IN  IF found = 0 /\ ~rd.eof THEN [err |-> NoErr, rd |-> rd]
             ELSE LET last_complete == IF rd.eof THEN Len(rd.buffer) ELSE found
                  IN  TheOne({ parsed_buffer(rd, last_complete, c) :
                                 c \in {collect(Slice(rd.buffer, rd.position, last_complete),
                                                Pending)} })

\* Ok(self.records_buffer.pop_front())
pop_front(rd) ==
    IF rd.records = <<>> THEN [rd |-> rd, ret |-> Ret("none", NoRec, NoErr)]
    ELSE [rd |-> [rd EXCEPT !.records = Tail(rd.records)],
          ret |-> Ret("record", Head(rd.records), NoErr)]

after_parse_buffer(pb) ==
    IF pb.err # NoErr THEN [rd |-> pb.rd, ret |-> Ret("error", NoRec, pb.err)]
    ELSE pop_front(pb.rd)

next_record(rd, n) ==
    IF rd.records # <<>> THEN pop_front(rd)
    ELSE IF rd.eof /\ rd.position >= Len(rd.buffer)
    THEN [rd |-> rd, ret |-> Ret("none", NoRec, NoErr)]
    ELSE TheOne({ after_parse_buffer(pb) :
                    pb \in {parse_buffer(reader_fill_buffer(rd, n))} })

ReaderInit ==
    /\ \E rs \in RecLists(Recs) : src = rs /\ data = Render(rs)
    /\ shape = Plain
    /\ r_rest = data /\ r_buffer = <<>> /\ r_position = 0 /\ r_eof = FALSE
    /\ r_records = <<>> /\ r_last = Ret("start", NoRec, NoErr) /\ r_out = <<>>
    /\ ParserIdle /\ ParIdle /\ StreamIdle /\ SimdIdle /\ QualIdle /\ b_taken = 0
    /\ ChunkerIdle /\ ChanIdle /\ ProcIdle

\* one next_record call; the caller stops at an error, and may call again
\* after a None
NextRecord ==
    /\ r_last.kind # "error"
    /\ \E n \in ReadSizes :
          LET x == next_record([rest |-> r_rest, buffer |-> r_buffer,
                                position |-> r_position, eof |-> r_eof,
                                records |-> r_records], n)
          IN  /\ r_rest' = x.rd.rest /\ r_buffer' = x.rd.buffer
              /\ r_position' = x.rd.position /\ r_eof' = x.rd.eof
              /\ r_records' = x.rd.records
              /\ r_last' = x.ret
              /\ r_out' = IF x.ret.kind = "record" THEN Append(r_out, x.ret.rec) ELSE r_out
    /\ UNCHANGED <<src, data, shape, parserVars, parVars, streamVars, simdVars,
                   qualVars, b_taken, chunkerVars, chanVars, procVars>>

ReaderSpec == ReaderInit /\ [][NextRecord]_vars

\* C26: next_record returns Ok(None) only when the source has reported end
\* of input and every record has been returned: on a well-formed input,
\* whatever the reads deliver, the records returned before a None are those
\* of the in-memory Parser, in order.
C26_NoneOnlyAtEnd ==
    (AllWellFormed(src) /\ r_last.kind = "none") =>
        /\ r_eof /\ r_rest = <<>>
        /\ r_out = collect(data, Pending).records

---------------------------------------------------------------------------
(* ChunkedStreamer (src/src/stream.rs).  A read() into the 8192-byte temp  *)
(* delivers at least one byte while the reader has any; the regions here   *)
(* are shorter than temp, so that a read can deliver all that is left.     *)
(* During a call the streamer is [rest, buffer, last_chunk].               *)
MaxChunk == 3
MaxOverlap == 2

\* what reader.read(&mut temp) delivers of rest when the source offers n
read_len(rest, n) == IF n = FullRead THEN Len(rest) ELSE Min2(n, Len(rest))

RECURSIVE read_chunk(_, _, _, _)
\* the first while loop of next_chunk
read_chunk(k, chunk_size, n, total_read) ==
    IF total_read < chunk_size
    THEN LET got == read_len(k.rest, n)
         IN  IF got = 0 THEN [k EXCEPT !.last_chunk = TRUE]
             ELSE read_chunk([k EXCEPT !.buffer = k.buffer \o SubSeq(k.rest, 1, got),
                                       !.rest = SubSeq(k.rest, got + 1, Len(k.rest))],
                             chunk_size, n, total_read + got)
    ELSE k

\* ChunkedStreamer::find_record_boundary
find_record_boundary(d) ==
    LET hits == {i \in 0 .. (Len(d) - 2) : d[i + 1] = NL /\ d[i + 2] = AT}
    IN  IF hits = {} THEN NONE ELSE MinOf(hits) + 1

RECURSIVE read_overlap(_, _, _, _, _)
\* the second while loop of next_chunk
read_overlap(k, chunk_size, overlap, n, extra_read) ==
    IF extra_read < overlap
    THEN LET got == read_len(k.rest, n)
         IN  IF got = 0 THEN [k EXCEPT !.last_chunk = TRUE]
             ELSE LET buffer1 == k.buffer \o SubSeq(k.rest, 1, got)
                      rest1 == SubSeq(k.rest, got + 1, Len(k.rest))
                      at == find_record_boundary(Slice(buffer1, chunk_size, Len(buffer1)))
                  IN  IF at # NONE
                      THEN [k EXCEPT !.buffer = SubSeq(buffer1, 1, chunk_size + at),
                                     !.rest = rest1]
                      ELSE read_overlap([k EXCEPT !.buffer = buffer1, !.rest = rest1],
                                        chunk_size, overlap, n, extra_read + got)
    ELSE k

\* next_chunk after its first loop
after_read_chunk(k, chunk_size, overlap, n) ==
    IF k.buffer = <<>> THEN [k |-> k, ret |-> <<"none">>]
    ELSE IF ~k.last_chunk
    THEN TheOne({ [k |-> k2, ret |-> <<"chunk", k2.buffer>>] :
                    k2 \in {read_overlap(k, chunk_size, overlap, n, 0)} })
    ELSE [k |-> k, ret |-> <<"chunk", k.buffer>>]

next_chunk(k, chunk_size, overlap, n) ==
    IF k.last_chunk THEN [k |-> k, ret |-> <<"none">>]
    ELSE TheOne({ after_read_chunk(k1, chunk_size, overlap, n) :
                    k1 \in {read_chunk([k EXCEPT !.buffer = <<>>], chunk_size, n, 0)} })

ChunkerInit ==
    /\ \E rs \in RecLists(Recs) : src = rs /\ data = Render(rs)
    /\ shape = Plain
    /\ k_rest = data /\ k_last_chunk = FALSE /\ k_ret = <<"start">> /\ k_out = <<>>
    /\ k_chunk_size \in 1 .. MaxChunk
    /\ k_overlap \in 0 .. MaxOverlap
    /\ ParserIdle /\ ParIdle /\ StreamIdle /\ SimdIdle /\ QualIdle /\ b_taken = 0
    /\ ReaderIdle /\ ChanIdle /\ ProcIdle

\* one next_chunk call
NextChunk ==
    /\ \E n \in ReadSizes :
          LET x == next_chunk([rest |-> k_rest, buffer |-> <<>>,
                               last_chunk |-> k_last_chunk],
                              k_chunk_size, k_overlap, n)
          IN  /\ k_rest' = x.k.rest
              /\ k_last_chunk' = x.k.last_chunk
              /\ k_ret' = x.ret
              /\ k_out' = IF x.ret[1] = "chunk" THEN k_out \o x.ret[2] ELSE k_out
    /\ UNCHANGED <<src, data, shape, parserVars, parVars, streamVars, simdVars,
                   qualVars, b_taken, readerVars, chanVars, procVars,
                   k_chunk_size, k_overlap>>

ChunkerSpec == ChunkerInit /\ [][NextChunk]_vars

\* C30: the chunks returned by successive next_chunk calls, concatenated in
\* order, are the input read so far (no byte is dropped, doubled or moved,
\* also when a chunk is cut at a record boundary), and next_chunk returns
\* None only after the whole input has been returned.
C30_ChunksCoverInput ==
    /\ k_out \o k_rest = data
    /\ k_ret = <<"none">> => k_out = data

---------------------------------------------------------------------------
(* ParallelParser::parse_streaming (src/src/parallel.rs): a spawned thread *)
(* runs the chunks' closures on the rayon pool; each closure sends its     *)
(* chunk's records into a bounded channel, the caller holds the receiver.  *)
(*                                                                         *)
(* The channel holds 1000 messages in the code; the model's regions hold a *)
(* handful of records, so the capacity is scaled down with them (ChanCap)  *)
(* to let the channel fill.  A message carries (ghost) the chunk it comes  *)
(* from and its rank among that chunk's records.  p_state is "ready"       *)
(* before the call, "spawned" while the thread runs, "closed" once it has  *)
(* ended and dropped the sender.  p_parsed[i] is the parser of chunk i's   *)
(* closure, with the records it has sent so far.                           *)
ChanCap == 2
MaxSent == 3

\* the pool sizes tried: the closures run one after the other, or two at a time
PoolSizes == {1, 2}

\* Sender::send on a channel whose receiver is gone
send_never_fails(recv) == FALSE

send_failed(recv) == recv = "dropped"

\* a channel that keeps the newest message only
enqueue_overwrite(queue, m) == <<m>>

\* a channel that hands out the newest message first
enqueue_front(queue, m) == <<m>> \o queue

\* the channel is first in, first out
enqueue(queue, m) == Append(queue, m)

\* the regions streamed: up to MaxSent records, all well-formed or the last
\* one with its quality line empty
GoodRec == Desc(<<97>>, 0, <<>>, <<65>>, <<73>>)
BadRec == Desc(<<98>>, 0, <<>>, <<65>>, <<>>)
ChanLists ==
    { [k \in 1 .. n |-> GoodRec] : n \in 0 .. MaxSent }
    \cup { [k \in 1 .. n |-> IF k = n THEN BadRec ELSE GoodRec] : n \in 1 .. MaxSent }

StreamingInit ==
    /\ \E rs \in ChanLists : src = rs /\ data = Render(rs)
    /\ shape = Plain
    /\ p_threads \in 1..MaxThreads /\ p_target = 1
    /\ p_state = "ready" /\ p_chunks = <<>> /\ p_parsed = <<>>
    /\ p_result = Ret("start", <<>>, NoErr)
    /\ c_queue = <<>> /\ c_recv = "alive" /\ c_got = <<>> /\ c_active = {}
    /\ c_pool \in PoolSizes
    /\ ParserIdle /\ StreamIdle /\ SimdIdle /\ QualIdle /\ b_taken = 0
    /\ ReaderIdle /\ ChunkerIdle /\ ProcIdle

ChanFrame ==
    UNCHANGED <<src, data, shape, parserVars, streamVars, simdVars, qualVars, b_taken,
                readerVars, chunkerVars, procVars, p_threads, p_target, p_result, c_pool>>

\* the call: the chunks are computed, the thread is spawned, the receiver returned
ParseStreaming ==
    /\ p_state = "ready"
    /\ p_chunks' = find_record_boundaries(data, p_threads, p_target)
    /\ p_parsed' = [i \in DOMAIN p_chunks' |-> Pending]
    /\ p_state' = "spawned"
    /\ UNCHANGED <<c_queue, c_recv, c_got, c_active>>
    /\ ChanFrame

\* a free pool thread takes up the closure of chunk i
StartChunk(i) ==
    /\ p_state = "spawned"
    /\ i \notin c_active /\ ~p_parsed[i].done
    /\ Cardinality(c_active) < c_pool
    /\ c_active' = c_active \cup {i}
    /\ UNCHANGED <<p_state, p_chunks, p_parsed, c_queue, c_recv, c_got>>
    /\ ChanFrame

\* one turn of the closure's for loop on chunk i: next(), then send.  The
\* send blocks while the channel is full and the receiver alive.
WorkerSend(i) ==
    /\ p_state = "spawned"
    /\ i \in c_active /\ ~p_parsed[i].done
    /\ \E w \in {iterator_next(Slice(data, p_chunks[i][1], p_chunks[i][2]), p_parsed[i])} :
          IF w.done
          THEN /\ p_parsed' = [p_parsed EXCEPT ![i] = w]
               /\ c_active' = c_active \ {i}
               /\ UNCHANGED c_queue
          ELSE IF send_failed(c_recv)
          THEN /\ p_parsed' = [p_parsed EXCEPT ![i].done = TRUE]
               /\ c_active' = c_active \ {i}
               /\ UNCHANGED c_queue
          ELSE /\ Len(c_queue) < ChanCap
               /\ c_queue' = enqueue(c_queue,
                     [rec |-> w.records[Len(w.records)], chunk |-> i, rank |-> Len(w.records)])
               /\ p_parsed' = [p_parsed EXCEPT ![i] = w]
               /\ UNCHANGED c_active
    /\ UNCHANGED <<p_state, p_chunks, c_recv, c_got>>
    /\ ChanFrame

\* for_each has returned: the thread ends and its sender is dropped
ThreadEnds ==
    /\ p_state = "spawned"
    /\ \A i \in DOMAIN p_parsed : p_parsed[i].done
    /\ p_state' = "closed"
    /\ UNCHANGED <<p_chunks, p_parsed, c_queue, c_recv, c_got, c_active>>
    /\ ChanFrame

\* Receiver::recv gives a message
Recv ==
    /\ c_recv = "alive" /\ c_queue # <<>>
    /\ c_got' = Append(c_got, Head(c_queue))
    /\ c_queue' = Tail(c_queue)
    /\ UNCHANGED <<p_state, p_chunks, p_parsed, c_recv, c_active>>
    /\ ChanFrame

\* Receiver::recv on the empty channel with no sender left: the end
RecvEnd ==
    /\ c_recv = "alive" /\ c_queue = <<>> /\ p_state = "closed"
    /\ c_recv' = "ended"
    /\ UNCHANGED <<p_state, p_chunks, p_parsed, c_queue, c_got, c_active>>
    /\ ChanFrame

\* the consumer drops the receiver; what the channel holds goes with it
DropReceiver ==
    /\ c_recv = "alive" /\ p_state # "ready"
    /\ c_recv' = "dropped"
    /\ c_queue' = <<>>
    /\ UNCHANGED <<p_state, p_chunks, p_parsed, c_got, c_active>>
    /\ ChanFrame

ProducerStep ==
    \/ ParseStreaming
    \/ \E i \in DOMAIN p_parsed : StartChunk(i)
    \/ \E i \in DOMAIN p_parsed : WorkerSend(i)
    \/ ThreadEnds

ConsumerStep == Recv \/ RecvEnd

\* a consumer that keeps receiving
StreamingNext == ProducerStep \/ ConsumerStep

\* a consumer that may drop the receiver at any time
CancelNext == ProducerStep \/ ConsumerStep \/ DropReceiver

\* every thread that can run does run in the end; so does the consumer
FairStreamingSpec ==
    StreamingInit /\ [][StreamingNext]_vars
        /\ WF_vars(ProducerStep) /\ WF_vars(ConsumerStep)

\* the consumer is under no obligation
CancelSpec == StreamingInit /\ [][CancelNext]_vars /\ WF_vars(ProducerStep)

---------------------------------------------------------------------------
(* Claims about parse_streaming.                                           *)

\* the messages of s that come from chunk i, in the order of s
FromChunk(s, i) == SelectSeq(s, LAMBDA m : m.chunk = i)

RecsOf(s) == [k \in DOMAIN s |-> s[k].rec]
RanksOf(s) == [k \in DOMAIN s |-> s[k].rank]

\* what the sequential Parser's iterator yields on chunk i
ChunkRecords(i) == collect(Slice(data, p_chunks[i][1], p_chunks[i][2]), Pending).records

\* nothing sent is lost, doubled or overtaken: what was received and what
\* the channel holds are, chunk by chunk, the records the chunk's closure sent
NothingLost ==
    /\ Len(c_queue) <= ChanCap
    /\ \A i \in DOMAIN p_parsed :
          /\ RecsOf(FromChunk(c_got \o c_queue, i)) = p_parsed[i].records
          /\ RanksOf(FromChunk(c_got \o c_queue, i)) = [k \in DOMAIN p_parsed[i].records |-> k]
    /\ \A k \in DOMAIN c_got : c_got[k].chunk \in DOMAIN p_parsed

\* the consumer saw the end, having received every record of every chunk
AllDelivered ==
    /\ c_recv = "ended" /\ c_queue = <<>> /\ p_state = "closed"
    /\ \A i \in DOMAIN p_chunks : RecsOf(FromChunk(c_got, i)) = ChunkRecords(i)

\* C22: with a consumer that keeps receiving, a closure blocks on the full
\* channel without dropping or overwriting anything, every record parsed
\* from every chunk is delivered exactly once, and after the last one the
\* consumer observes the end of the channel: the run never gets stuck
\* before that.
C22_StreamingDeliversAll == []NothingLost /\ <>AllDelivered

\* three chunks of one record each, all received, and the end seen
C22_Witness ==
    /\ c_recv = "ended" /\ Len(p_chunks) = 3 /\ Len(c_got) = 3
    /\ \A i \in 1 .. 3 : Len(p_parsed[i].records) = 1

\* C23: once the consumer has dropped the receiver, no closure sends
\* anything more (each stops at the record it was about to send), and all
\* closures and the spawned thread terminate.
C23_CancellationStopsProducer ==
    /\ [][c_recv = "dropped" =>
            /\ c_queue' = c_queue
            /\ \A i \in DOMAIN p_parsed : p_parsed'[i].records = p_parsed[i].records]_vars
    /\ (c_recv = "dropped") ~> (p_state = "closed" /\ c_active = {})

\* the thread has ended after a drop that cut a chunk short
C23_Witness ==
    /\ c_recv = "dropped" /\ p_state = "closed"
    /\ \E i \in DOMAIN p_chunks : Len(p_parsed[i].records) < Len(ChunkRecords(i))

---------------------------------------------------------------------------
(* Both parallel surfaces over the same regions: ParallelParser::parse     *)
(* (p_state "init", "split", "done") and parse_streaming (p_state "ready", *)
(* "spawned", "closed"), the consumer free to drop the receiver.           *)
DeliveryInit ==
    /\ \E rs \in ChanLists : src = rs /\ data = Render(rs)
    /\ shape = Plain
    /\ p_threads \in 1..MaxThreads /\ p_target = 1
    /\ p_state \in {"init", "ready"} /\ p_chunks = <<>> /\ p_parsed = <<>>
    /\ p_result = Ret("start", <<>>, NoErr)
    /\ c_queue = <<>> /\ c_recv = "alive" /\ c_got = <<>> /\ c_active = {}
    /\ c_pool \in PoolSizes
    /\ ParserIdle /\ StreamIdle /\ SimdIdle /\ QualIdle /\ b_taken = 0
    /\ ReaderIdle /\ ChunkerIdle /\ ProcIdle

DeliveryNext == ParNext \/ CancelNext

DeliverySpec == DeliveryInit /\ [][DeliveryNext]_vars

\* the records of chunks i, i+1, ... as the sequential Parser yields them
RECURSIVE InFileOrder(_)
InFileOrder(i) ==
    IF i > Len(p_chunks) THEN <<>> ELSE ChunkRecords(i) \o InFileOrder(i + 1)

\* C21: on both parallel surfaces, under every interleaving, any two
\* records of the same chunk are delivered in file order: parse returns each
\* chunk's records as the sequential Parser yields them on the chunk, and
\* what the consumer of parse_streaming has received from a chunk is, in
\* order, the beginning of what the Parser yields on that chunk.
C21_ChunkRecordsInFileOrder ==
    /\ p_state = "done" => p_result.rec = InFileOrder(1)
    /\ p_state \in {"spawned", "closed"} =>
          \A i \in DOMAIN p_chunks :
              /\ IsPrefix(RecsOf(FromChunk(c_got, i)), ChunkRecords(i))
              /\ RanksOf(FromChunk(c_got, i)) = [k \in DOMAIN FromChunk(c_got, i) |-> k]

\* two records of the first chunk received with one of the second in between
C21_Witness ==
    /\ p_state \in {"spawned", "closed"}
    /\ Len(c_got) = 3
    /\ <<c_got[1].chunk, c_got[2].chunk, c_got[3].chunk>> = <<1, 2, 1>>

\* (not a claim) a closure held up by the full channel, the consumer alive
BlockedOnFullChannel ==
    /\ c_recv = "alive" /\ Len(c_queue) = ChanCap
    /\ \E i \in c_active : Len(p_parsed[i].records) < Len(ChunkRecords(i))

---------------------------------------------------------------------------
(* ParallelProcessor::process_file (src/src/parallel.rs).  num_threads     *)
(* worker threads (p_threads) receive from the bounded channel and run the *)
(* processor; parse_and_send runs the chunks' closures on the rayon pool,  *)
(* which send as those of parse_streaming do, and drops the sender when it *)
(* returns; process_file then joins the workers and returns the stats.     *)
(* The receiver process_file keeps for itself lives until it returns, so   *)
(* that no send fails.  p_state is "called" at the call, "spawned" while   *)
(* parse_and_send runs, "closed" once it has returned, "returned" at the   *)
(* end.  QUEUE_SIZE is scaled as the channel of parse_streaming is, and    *)
(* chunk_size (p_target) as the chunk floor of ParallelParser is.          *)
(* c_got is (ghost) what the workers have received.                        *)
MaxWorkers == 2
MaxProc == 2

\* ParallelProcessor::find_chunk_boundary
find_chunk_boundary(d, start, target_size) ==
    LET end == Min2(start + target_size, Len(d))
    IN  IF end >= Len(d) THEN Len(d) ELSE boundary_scan(d, end)

RECURSIVE split_into_chunks(_, _, _)
\* ParallelProcessor::split_into_chunks, from offset p on
split_into_chunks(d, p, chunk_size) ==
    IF p < Len(d)
    THEN TheOne({ <<(<<p, end>>)>> \o split_into_chunks(d, end, chunk_size) :
                    end \in {find_chunk_boundary(d, p, chunk_size)} })
    ELSE <<>>

\* a worker that forgets the records its processor refused
count_failed_skip(stats) == stats

\* stats.lock().unwrap().failed += 1
count_failed(stats) == [stats EXCEPT !.failed = @ + 1]

\* stats.lock().unwrap().processed += 1
count_processed(stats) == [stats EXCEPT !.processed = @ + 1]

\* the regions processed: up to MaxProc records, all well-formed or the last
\* one with its quality line empty
ProcLists ==
    { [k \in 1 .. n |-> GoodRec] : n \in 0 .. MaxProc }
    \cup { [k \in 1 .. n |-> IF k = n THEN BadRec ELSE GoodRec] : n \in 1 .. MaxProc }

ProcInit ==
    /\ \E rs \in ProcLists : src = rs /\ data = Render(rs)
    /\ shape = Plain
    /\ p_threads \in 1..MaxWorkers /\ p_target = 1
    /\ p_state = "called" /\ p_chunks = <<>> /\ p_parsed = <<>>
    /\ p_result = Ret("start", <<>>, NoErr)
    /\ c_queue = <<>> /\ c_recv = "alive" /\ c_got = <<>> /\ c_active = {}
    /\ c_pool \in PoolSizes
    /\ w_state = <<>> /\ w_stats = [processed |-> 0, failed |-> 0]
    /\ w_progress \in {0, 1} /\ w_base = w_progress
    /\ ParserIdle /\ StreamIdle /\ SimdIdle /\ QualIdle /\ b_taken = 0
    /\ ReaderIdle /\ ChunkerIdle

ProcFrame ==
    UNCHANGED <<src, data, shape, parserVars, streamVars, simdVars, qualVars, b_taken,
                readerVars, chunkerVars, p_threads, p_target, c_pool, c_recv, c_active,
                w_base>>

\* the call: the channel is made, the workers are spawned, parse_and_send
\* splits the region
ProcessFile ==
    /\ p_state = "called"
    /\ w_state' = [j \in 1 .. p_threads |-> <<"recv">>]
    /\ p_chunks' = split_into_chunks(data, 0, p_target)
    /\ p_parsed' = [i \in DOMAIN p_chunks' |-> Pending]
    /\ p_state' = "spawned"
    /\ UNCHANGED <<p_result, c_queue, c_got, w_stats, w_progress>>
    /\ ProcFrame

\* receiver.recv() in worker j: a record, or the end of its loop once the
\* channel is empty and the sender dropped
WorkerRecv(j) ==
    /\ w_state[j] = <<"recv">>
    /\ IF c_queue # <<>>
       THEN /\ w_state' = [w_state EXCEPT ![j] = <<"process", Head(c_queue)>>]
            /\ c_queue' = Tail(c_queue)
            /\ c_got' = Append(c_got, Head(c_queue))
       ELSE /\ p_state = "closed"
            /\ w_state' = [w_state EXCEPT ![j] = <<"exit">>]
            /\ UNCHANGED <<c_queue, c_got>>
    /\ UNCHANGED <<p_state, p_chunks, p_parsed, p_result, w_stats, w_progress>>
    /\ ProcFrame

\* processor(record) in worker j: Ok, then progress.fetch_add(1); or Err,
\* then failed += 1
WorkerProcess(j) ==
    /\ w_state[j][1] = "process"
    /\ \E ok \in BOOLEAN :
          IF ok
          THEN /\ w_progress' = w_progress + 1
               /\ w_state' = [w_state EXCEPT ![j] = <<"count">>]
               /\ UNCHANGED w_stats
          ELSE /\ w_stats' = count_failed(w_stats)
               /\ w_state' = [w_state EXCEPT ![j] = <<"recv">>]
               /\ UNCHANGED w_progress
    /\ UNCHANGED <<p_state, p_chunks, p_parsed, p_result, c_queue, c_got>>
    /\ ProcFrame

\* processed += 1 in worker j, after its fetch_add
WorkerCount(j) ==
    /\ w_state[j] = <<"count">>
    /\ w_stats' = count_processed(w_stats)
    /\ w_state' = [w_state EXCEPT ![j] = <<"recv">>]
    /\ UNCHANGED <<p_state, p_chunks, p_parsed, p_result, c_queue, c_got, w_progress>>
    /\ ProcFrame

\* every worker joined: process_file returns the stats
JoinWorkers ==
    /\ p_state = "closed"
    /\ \A j \in DOMAIN w_state : w_state[j] = <<"exit">>
    /\ p_state' = "returned"
    /\ p_result' = Ret("ok", w_stats, NoErr)
    /\ UNCHANGED <<p_chunks, p_parsed, c_queue, c_got, w_state, w_stats, w_progress>>
    /\ ProcFrame

\* the closures of parse_and_send and its return, as those of parse_streaming
Sending(A) == A /\ UNCHANGED <<w_state, w_stats, w_progress>>

ProcNext ==
    \/ ProcessFile
    \/ \E i \in DOMAIN p_parsed : Sending(StartChunk(i))
    \/ \E i \in DOMAIN p_parsed : Sending(WorkerSend(i))
    \/ Sending(ThreadEnds)
    \/ \E j \in DOMAIN w_state : WorkerRecv(j)
    \/ \E j \in DOMAIN w_state : WorkerProcess(j)
    \/ \E j \in DOMAIN w_state : WorkerCount(j)
    \/ JoinWorkers

\* every thread that can run does run in the end
FairProcSpec == ProcInit /\ [][ProcNext]_vars /\ WF_vars(ProcNext)

\* process_file has returned with every record of every chunk handed to the
\* processor once, each counted as processed or failed, and progress raised
\* by the number processed
ReturnedExact ==
    p_state = "returned" =>
        /\ \A i \in DOMAIN p_chunks : RecsOf(FromChunk(c_got, i)) = ChunkRecords(i)
        /\ \A k \in DOMAIN c_got : c_got[k].chunk \in DOMAIN p_chunks
        /\ p_result.rec.processed + p_result.rec.failed = Len(c_got)
        /\ w_progress - w_base = p_result.rec.processed

=============================================================================
